---- MODULE Spec2Model ----
(***************************************************************************)
(* Model of the REST gateway: transactional order placement                *)
(* (app/services/pedido_service.py), the chat tool-calling loop            *)
(* (app/services/ai_service.py) and the database access layer              *)
(* (app/services/db_service.py).                                           *)
(*                                                                         *)
(* PostgreSQL is modelled at READ COMMITTED: a transaction sees committed  *)
(* rows plus its own writes, SELECT ... FOR UPDATE takes an exclusive row  *)
(* lock held until COMMIT or ROLLBACK, and any statement may fail (lost    *)
(* connection, statement_timeout while waiting for a lock, deadlock).      *)
(***************************************************************************)
EXTENDS Integers, Sequences, FiniteSets, TLC

(***************************************************************************)
(* Bounds of the model.                                                    *)
(***************************************************************************)
NumCalls == 2       \* crear_pedido calls, possibly concurrent (worker processes)
MaxItems == 2       \* line items per call
MaxCantidad == 3    \* largest quantity of a line item

Calls == 1..NumCalls
NoCall == 0

(***************************************************************************)
(* Table productos: rows 7 and 8 exist, id 9 names no row.                 *)
(***************************************************************************)
Products == {7, 8}
ProductIds == {7, 8, 9}
Precio == [p \in Products |-> IF p = 7 THEN 10 ELSE 4]
StockInicial == [p \in Products |-> IF p = 7 THEN 5 ELSE 2]

Cantidades == 1..MaxCantidad
\* the quantity asked of a product that does not exist is never looked at
ItemSet == [producto_id : Products, cantidad : Cantidades]
             \cup [producto_id : ProductIds \ Products, cantidad : {1}]
ItemLists == UNION {[1..n -> ItemSet] : n \in 0..MaxItems}

VARIABLES
    \* ---- committed database state ----
    stock,        \* productos.stock, committed
    pedidos,      \* rows of table pedidos, committed
    detalles,     \* rows of table detalles_pedido, committed
    seqPedido,    \* sequence behind pedidos.id
    lockOwner,    \* row lock on each product: the call holding it, or NoCall
    \* ---- one crear_pedido call each ----
    pc,           \* position of the call in crear_pedido
    items,        \* argument items
    idx,          \* index of the item the current loop is at (1-based)
    total,        \* local total
    producto,     \* row fetched by the last SELECT ... FOR UPDATE
    pedido_id,    \* id returned by INSERT INTO pedidos
    txLog,        \* uncommitted stock decrements of the call's transaction
    txPedidos,    \* uncommitted pedidos rows of the transaction
    txDetalles,   \* uncommitted detalles_pedido rows of the transaction
    exc,          \* exception in flight
    result,       \* what the call returned or raised
    conn,         \* state of the call's psycopg2 connection
    verificados   \* history: items that passed the stock check and were decremented

orderVars == <<stock, pedidos, detalles, seqPedido, lockOwner, pc, items, idx,
               total, producto, pedido_id, txLog, txPedidos, txDetalles, exc,
               result, conn, verificados>>

VARIABLES
    \* ---- one process_chat call ----
    chatPc,        \* position of the call in process_chat
    chatMessages,  \* argument messages
    submissions,   \* history: the payloads posted to the upstream endpoint, in order
    statuses,      \* history: the status codes of the responses read, in order
    message,       \* data["choices"][0]["message"] of the first response
    data,          \* response.json() of the last response read
    tcIdx,         \* index of the tool call the loop is at (1-based)
    results,       \* local results
    chatResult     \* what the call returned or raised

chatVars == <<chatPc, chatMessages, submissions, statuses, message, data, tcIdx,
              results, chatResult>>

VARIABLES
    \* ---- database access layer ----
    dbPc,          \* position inside the running operation
    dbOp,          \* the running operation and its arguments
    dbConns,       \* the psycopg2 connections opened so far, each with its state
    dbResult,      \* what the last operation returned or raised
    dbOps          \* number of operations started

dbVars == <<dbPc, dbOp, dbConns, dbResult, dbOps>>

VARIABLES
    \* ---- POST /mcp (app/main.py) ----
    mcpRequest,    \* body of the request handled last
    mcpResponse,   \* what the endpoint answered to it
    mcpCalls       \* number of requests handled

mcpVars == <<mcpRequest, mcpResponse, mcpCalls>>

VARIABLES
    \* ---- start of the application (import of app.main) ----
    env,           \* the environment variables of the process
    bootPc,        \* the module-level statement the import is at
    bootResult     \* "serving", or the exception that ended the import

bootVars == <<env, bootPc, bootResult>>

appVars == <<mcpVars, bootVars>>

vars == <<orderVars, chatVars, dbVars, appVars>>

(***************************************************************************)
(* Exceptions (app/exceptions.py) and results.                             *)
(***************************************************************************)
NoExc == [kind |-> "none"]
NoResult == [kind |-> "none"]
NoRow == [found |-> FALSE]

\* ValidationError(message): code 400
ValidationError(m) == [kind |-> "ValidationError", code |-> 400, message |-> m]
\* DatabaseError(message): code 500 by default
DatabaseError(m) == [kind |-> "DatabaseError", code |-> 500, message |-> m]
\* any exception that is not a DatabaseError (psycopg2.Error, KeyError, ...)
OtherError(m) == [kind |-> "Exception", code |-> 0, message |-> [texto |-> m]]

MsgSinItems == [texto |-> "El pedido debe contener al menos un item"]
MsgNoEncontrado(p) == [texto |-> "Producto no encontrado", producto_id |-> p]
MsgStockInsuficiente(p, d, s) ==
    [texto |-> "Stock insuficiente", producto_id |-> p, disponible |-> d, solicitado |-> s]
MsgErrorCrear(e) == [texto |-> "Error al crear el pedido", causa |-> e.message]

RECURSIVE SumSeq(_, _)
\* sum of f(s[k]) over the elements of the sequence s
SumSeq(s, k) ==
    IF k = 0 THEN 0 ELSE s[k] + SumSeq(s, k - 1)

\* quantity of product p decremented by the entries of log
Decrementado(log, p) ==
    SumSeq([k \in 1..Len(log) |-> IF log[k].producto_id = p THEN log[k].cantidad ELSE 0],
           Len(log))

\* the stock of p as seen inside the transaction of call c
StockVisible(c, p) == stock[p] - Decrementado(txLog[c], p)


(***************************************************************************)
(* PedidoService.crear_pedido, one action per statement sent to the        *)
(* database.                                                               *)
(***************************************************************************)
InitOrder ==
    /\ stock = StockInicial
    /\ pedidos = {}
    /\ detalles = {}
    /\ seqPedido = 1
    /\ lockOwner = [p \in Products |-> NoCall]
    /\ pc = [c \in Calls |-> "idle"]
    /\ items = [c \in Calls |-> <<>>]
    /\ idx = [c \in Calls |-> 0]
    /\ total = [c \in Calls |-> 0]
    /\ producto = [c \in Calls |-> NoRow]
    /\ pedido_id = [c \in Calls |-> 0]
    /\ txLog = [c \in Calls |-> <<>>]
    /\ txPedidos = [c \in Calls |-> {}]
    /\ txDetalles = [c \in Calls |-> {}]
    /\ exc = [c \in Calls |-> NoExc]
    /\ result = [c \in Calls |-> NoResult]
    /\ conn = [c \in Calls |-> "none"]
    /\ verificados = [c \in Calls |-> 0]

\* crear_pedido without the check of line 23: an empty list opens a connection
CrearPedidoUnchecked(c, its) ==
    /\ pc[c] = "idle"
    /\ UNCHANGED <<chatVars, dbVars, appVars>>
    /\ items' = [items EXCEPT ![c] = its]
    /\ total' = [total EXCEPT ![c] = 0]
    /\ pc' = [pc EXCEPT ![c] = IF Len(its) = 0 THEN "commit" ELSE "connect"]
    /\ conn' = [conn EXCEPT ![c] = IF Len(its) = 0 THEN "in_tx" ELSE @]
    /\ UNCHANGED <<stock, pedidos, detalles, seqPedido, lockOwner, idx, producto,
                   pedido_id, txLog, txPedidos, txDetalles, exc, result, verificados>>

\* lines 21-27: the call is made; an empty list is refused before any connection
CrearPedido(c, its) ==
    /\ pc[c] = "idle"
    /\ UNCHANGED <<chatVars, dbVars, appVars>>
    /\ items' = [items EXCEPT ![c] = its]
    /\ total' = [total EXCEPT ![c] = 0]
    /\ IF Len(its) = 0
         THEN /\ result' = [result EXCEPT ![c] = ValidationError(MsgSinItems)]
              /\ pc' = [pc EXCEPT ![c] = "done"]
         ELSE /\ pc' = [pc EXCEPT ![c] = "connect"]
              /\ UNCHANGED result
    /\ UNCHANGED <<stock, pedidos, detalles, seqPedido, lockOwner, idx, producto,
                   pedido_id, txLog, txPedidos, txDetalles, exc, conn, verificados>>

\* lines 28-31: connection opened, cursor, BEGIN
Connect(c) ==
    /\ pc[c] = "connect"
    /\ UNCHANGED <<chatVars, dbVars, appVars>>
    /\ conn' = [conn EXCEPT ![c] = "in_tx"]
    /\ idx' = [idx EXCEPT ![c] = 1]
    /\ pc' = [pc EXCEPT ![c] = "select"]
    /\ UNCHANGED <<stock, pedidos, detalles, seqPedido, lockOwner, items, total,
                   producto, pedido_id, txLog, txPedidos, txDetalles, exc, result,
                   verificados>>

\* line 28 with db_service._get_connection raising ConnectionError, which the
\* outer handler (lines 111-112) wraps: it is not a ValidationError
ConnectFails(c) ==
    /\ pc[c] = "connect"
    /\ UNCHANGED <<chatVars, dbVars, appVars>>
    /\ result' = [result EXCEPT ![c] =
                    DatabaseError(MsgErrorCrear(OtherError("ConnectionError")))]
    /\ pc' = [pc EXCEPT ![c] = "done"]
    /\ UNCHANGED <<stock, pedidos, detalles, seqPedido, lockOwner, items, idx, total,
                   producto, pedido_id, txLog, txPedidos, txDetalles, exc, conn,
                   verificados>>

\* the row SELECT precio, stock ... WHERE id = p FOR UPDATE returns to call c
FilaProducto(c, p) ==
    IF p \in Products
      THEN [found |-> TRUE, precio |-> Precio[p], stock |-> StockVisible(c, p)]
      ELSE NoRow

\* a SELECT without FOR UPDATE: it waits for no lock
PuedeBloquearSinForUpdate(c, p) == TRUE

\* the row lock FOR UPDATE needs is free or already held by the transaction
PuedeBloquear(c, p) == p \in Products => lockOwner[p] \in {NoCall, c}

\* the loop body without the stock check of lines 50-54
SelectForUpdateNoStockCheck(c) ==
    /\ pc[c] = "select"
    /\ UNCHANGED <<chatVars, dbVars, appVars>>
    /\ LET item == items[c][idx[c]]
           p == item.producto_id
           fila == FilaProducto(c, p)
       IN /\ PuedeBloquear(c, p)
          /\ lockOwner' = [q \in Products |-> IF q = p THEN c ELSE lockOwner[q]]
          /\ producto' = [producto EXCEPT ![c] = fila]
          /\ IF ~fila.found
               THEN /\ exc' = [exc EXCEPT ![c] = ValidationError(MsgNoEncontrado(p))]
                    /\ pc' = [pc EXCEPT ![c] = "except"]
               ELSE /\ pc' = [pc EXCEPT ![c] = "update"]
                    /\ UNCHANGED exc
    /\ UNCHANGED <<stock, pedidos, detalles, seqPedido, items, idx, total, pedido_id,
                   txLog, txPedidos, txDetalles, result, conn, verificados>>

\* lines 36-54: SELECT ... FOR UPDATE of the current item, then the two checks
SelectForUpdate(c) ==
    /\ pc[c] = "select"
    /\ UNCHANGED <<chatVars, dbVars, appVars>>
    /\ LET item == items[c][idx[c]]
           p == item.producto_id
           fila == FilaProducto(c, p)
       IN /\ PuedeBloquear(c, p)
          /\ lockOwner' = [q \in Products |-> IF q = p THEN c ELSE lockOwner[q]]
          /\ producto' = [producto EXCEPT ![c] = fila]
          /\ IF ~fila.found
               THEN /\ exc' = [exc EXCEPT ![c] = ValidationError(MsgNoEncontrado(p))]
                    /\ pc' = [pc EXCEPT ![c] = "except"]
               ELSE IF fila.stock < item.cantidad
                 THEN /\ exc' = [exc EXCEPT ![c] = ValidationError(
                                   MsgStockInsuficiente(p, fila.stock, item.cantidad))]
                      /\ pc' = [pc EXCEPT ![c] = "except"]
                 ELSE /\ pc' = [pc EXCEPT ![c] = "update"]
                      /\ UNCHANGED exc
    /\ UNCHANGED <<stock, pedidos, detalles, seqPedido, items, idx, total, pedido_id,
                   txLog, txPedidos, txDetalles, result, conn, verificados>>

\* lines 56-65: UPDATE productos SET stock = stock - cantidad, total accumulated
UpdateStock(c) ==
    /\ pc[c] = "update"
    /\ UNCHANGED <<chatVars, dbVars, appVars>>
    /\ LET item == items[c][idx[c]]
       IN /\ txLog' = [txLog EXCEPT ![c] = Append(@, item)]
          /\ total' = [total EXCEPT ![c] = @ + producto[c].precio * item.cantidad]
          /\ verificados' = [verificados EXCEPT ![c] = @ + 1]
          /\ IF idx[c] < Len(items[c])
               THEN /\ idx' = [idx EXCEPT ![c] = @ + 1]
                    /\ pc' = [pc EXCEPT ![c] = "select"]
               ELSE /\ idx' = [idx EXCEPT ![c] = 1]
                    /\ pc' = [pc EXCEPT ![c] = "insert_pedido"]
    /\ UNCHANGED <<stock, pedidos, detalles, seqPedido, lockOwner, items, producto,
                   pedido_id, txPedidos, txDetalles, exc, result, conn>>

\* lines 67-74: INSERT INTO pedidos ... 'pendiente' RETURNING id
InsertPedido(c) ==
    /\ pc[c] = "insert_pedido"
    /\ UNCHANGED <<chatVars, dbVars, appVars>>
    /\ seqPedido' = seqPedido + 1
    /\ pedido_id' = [pedido_id EXCEPT ![c] = seqPedido]
    /\ txPedidos' = [txPedidos EXCEPT ![c] =
                       {[id |-> seqPedido, usuario_id |-> c, total |-> total[c],
                         estado |-> "pendiente"]}]
    /\ pc' = [pc EXCEPT ![c] = "insert_detalle"]
    /\ UNCHANGED <<stock, pedidos, detalles, lockOwner, items, idx, total, producto,
                   txLog, txDetalles, exc, result, conn, verificados>>

\* lines 77-92: INSERT INTO detalles_pedido ... SELECT ... FROM productos WHERE id = p
InsertDetalle(c) ==
    /\ pc[c] = "insert_detalle"
    /\ UNCHANGED <<chatVars, dbVars, appVars>>
    /\ LET item == items[c][idx[c]]
           p == item.producto_id
       IN /\ txDetalles' = [txDetalles EXCEPT ![c] = @ \cup
                 {[pedido_id |-> pedido_id[c], linea |-> idx[c], producto_id |-> p,
                   cantidad |-> item.cantidad, precio_unitario |-> Precio[p],
                   subtotal |-> Precio[p] * item.cantidad]}]
          /\ IF idx[c] < Len(items[c])
               THEN /\ idx' = [idx EXCEPT ![c] = @ + 1]
                    /\ UNCHANGED pc
               ELSE /\ pc' = [pc EXCEPT ![c] = "commit"]
                    /\ UNCHANGED idx
    /\ UNCHANGED <<stock, pedidos, detalles, seqPedido, lockOwner, items, total,
                   producto, pedido_id, txLog, txPedidos, exc, result, conn,
                   verificados>>

\* the row locks of call c are released
LocksReleased(c) == [p \in Products |-> IF lockOwner[p] = c THEN NoCall ELSE lockOwner[p]]

\* a commit that loses the transaction's decrements
StockCommittedLost(c) == stock

\* the committed stock once the transaction of call c is committed
StockCommitted(c) == [p \in Products |-> StockVisible(c, p)]

\* a commit after which the tables hold only the rows of this transaction
CommitReplacingRows(c) ==
    /\ pc[c] = "commit"
    /\ UNCHANGED <<chatVars, dbVars, appVars>>
    /\ stock' = StockCommitted(c)
    /\ pedidos' = txPedidos[c]
    /\ detalles' = txDetalles[c]
    /\ lockOwner' = LocksReleased(c)
    /\ txLog' = [txLog EXCEPT ![c] = <<>>]
    /\ txPedidos' = [txPedidos EXCEPT ![c] = {}]
    /\ txDetalles' = [txDetalles EXCEPT ![c] = {}]
    /\ conn' = [conn EXCEPT ![c] = "open"]
    /\ result' = [result EXCEPT ![c] =
                    [kind |-> "return", status |-> "success",
                     pedido_id |-> pedido_id[c], total |-> total[c]]]
    /\ pc' = [pc EXCEPT ![c] = "done"]
    /\ idx' = [idx EXCEPT ![c] = 0]
    /\ total' = [total EXCEPT ![c] = 0]
    /\ producto' = [producto EXCEPT ![c] = NoRow]
    /\ pedido_id' = [pedido_id EXCEPT ![c] = 0]
    /\ UNCHANGED <<seqPedido, items, exc, verificados>>

\* lines 94-102: conn.commit() and the returned dictionary
Commit(c) ==
    /\ pc[c] = "commit"
    /\ UNCHANGED <<chatVars, dbVars, appVars>>
    /\ stock' = StockCommitted(c)
    /\ pedidos' = pedidos \cup txPedidos[c]
    /\ detalles' = detalles \cup txDetalles[c]
    /\ lockOwner' = LocksReleased(c)
    /\ txLog' = [txLog EXCEPT ![c] = <<>>]
    /\ txPedidos' = [txPedidos EXCEPT ![c] = {}]
    /\ txDetalles' = [txDetalles EXCEPT ![c] = {}]
    /\ conn' = [conn EXCEPT ![c] = "open"]
    /\ result' = [result EXCEPT ![c] =
                    [kind |-> "return", status |-> "success",
                     pedido_id |-> pedido_id[c], total |-> total[c]]]
    /\ pc' = [pc EXCEPT ![c] = "done"]
    /\ idx' = [idx EXCEPT ![c] = 0]
    /\ total' = [total EXCEPT ![c] = 0]
    /\ producto' = [producto EXCEPT ![c] = NoRow]
    /\ pedido_id' = [pedido_id EXCEPT ![c] = 0]
    /\ UNCHANGED <<seqPedido, items, exc, verificados>>

\* any cur.execute or conn.commit of lines 40-95 raises a psycopg2 error: lost
\* connection, statement_timeout while waiting for a row lock, detected deadlock
StatementFails(c) ==
    /\ pc[c] \in {"select", "update", "insert_pedido", "insert_detalle", "commit"}
    /\ UNCHANGED <<chatVars, dbVars, appVars>>
    /\ exc' = [exc EXCEPT ![c] = OtherError("psycopg2.Error")]
    /\ pc' = [pc EXCEPT ![c] = "except"]
    /\ UNCHANGED <<stock, pedidos, detalles, seqPedido, lockOwner, items, idx, total,
                   producto, pedido_id, txLog, txPedidos, txDetalles, result, conn,
                   verificados>>

\* the product of the current item is locked by another transaction
Blocked(c) ==
    /\ pc[c] = "select"
    /\ ~PuedeBloquear(c, items[c][idx[c]].producto_id)

\* psycopg2.errors.QueryCanceled
MsgStatementTimeout == "canceling statement due to statement timeout"

\* a connection without statement_timeout: the statement waits for the lock
LockWaitsForever(c) == FALSE /\ UNCHANGED vars

\* db_service.py line 52 (statement_timeout=60000) on the cur.execute of lines
\* 40-44: the server cancels the SELECT ... FOR UPDATE that waited for a row
\* lock, and cur.execute raises
LockTimeout(c) ==
    /\ Blocked(c)
    /\ UNCHANGED <<chatVars, dbVars, appVars>>
    /\ exc' = [exc EXCEPT ![c] = OtherError(MsgStatementTimeout)]
    /\ pc' = [pc EXCEPT ![c] = "except"]
    /\ UNCHANGED <<stock, pedidos, detalles, seqPedido, lockOwner, items, idx, total,
                   producto, pedido_id, txLog, txPedidos, txDetalles, result, conn,
                   verificados>>

\* a handler without conn.rollback() on a connection whose with block then
\* commits what the transaction wrote so far
RollbackOmitted(c) ==
    /\ pc[c] = "except"
    /\ UNCHANGED <<chatVars, dbVars, appVars>>
    /\ stock' = StockCommitted(c)
    /\ pedidos' = pedidos \cup txPedidos[c]
    /\ detalles' = detalles \cup txDetalles[c]
    /\ lockOwner' = LocksReleased(c)
    /\ txLog' = [txLog EXCEPT ![c] = <<>>]
    /\ txPedidos' = [txPedidos EXCEPT ![c] = {}]
    /\ txDetalles' = [txDetalles EXCEPT ![c] = {}]
    /\ conn' = [conn EXCEPT ![c] = "open"]
    /\ pc' = [pc EXCEPT ![c] = "raise"]
    /\ UNCHANGED <<seqPedido, items, idx, total, producto, pedido_id, exc, result,
                   verificados>>

\* lines 104-106: conn.rollback() discards the transaction's writes and locks
Rollback(c) ==
    /\ pc[c] = "except"
    /\ UNCHANGED <<chatVars, dbVars, appVars>>
    /\ lockOwner' = LocksReleased(c)
    /\ txLog' = [txLog EXCEPT ![c] = <<>>]
    /\ txPedidos' = [txPedidos EXCEPT ![c] = {}]
    /\ txDetalles' = [txDetalles EXCEPT ![c] = {}]
    /\ conn' = [conn EXCEPT ![c] = "open"]
    /\ pc' = [pc EXCEPT ![c] = "raise"]
    /\ UNCHANGED <<stock, pedidos, detalles, seqPedido, items, idx, total, producto,
                   pedido_id, exc, result, verificados>>

\* the outer handlers without `except ValidationError: raise`
PropagatedAllWrapped(e) == DatabaseError(MsgErrorCrear(e))

\* lines 109-112: what the outer handlers make of the exception e
Propagated(e) ==
    IF e.kind = "ValidationError" THEN e ELSE DatabaseError(MsgErrorCrear(e))

\* lines 107-112: raise e, through the with blocks, to the outer handlers
Propagate(c) ==
    /\ pc[c] = "raise"
    /\ UNCHANGED <<chatVars, dbVars, appVars>>
    /\ result' = [result EXCEPT ![c] = Propagated(exc[c])]
    /\ exc' = [exc EXCEPT ![c] = NoExc]
    /\ pc' = [pc EXCEPT ![c] = "done"]
    /\ idx' = [idx EXCEPT ![c] = 0]
    /\ total' = [total EXCEPT ![c] = 0]
    /\ producto' = [producto EXCEPT ![c] = NoRow]
    /\ pedido_id' = [pedido_id EXCEPT ![c] = 0]
    /\ UNCHANGED <<stock, pedidos, detalles, seqPedido, lockOwner, items, txLog,
                   txPedidos, txDetalles, conn, verificados>>

(***************************************************************************)
(* AIService.process_chat (app/services/ai_service.py).                    *)
(*                                                                         *)
(* A JSON object is a function from the keys that are present; dict.get    *)
(* is Get.  The upstream endpoint is the environment: it answers each      *)
(* submission with a status, a body text and a JSON payload.               *)
(***************************************************************************)
MaxToolCalls == 2    \* tool-call directives in one upstream message

EmptyDict == <<>>
Get(d, k, default) == IF k \in DOMAIN d THEN d[k] ELSE default

\* self.model_name
ModelName == "gpt-3.5-turbo-1106"
\* self.system_message
SystemMessage == [role |-> "system", content |-> "Eres un asistente especializado"]

\* the conversations a caller sends
Conversations ==
    { <<[role |-> "user", content |-> "que tablas hay"]>>,
      <<[role |-> "user", content |-> "hola"],
        [role |-> "assistant", content |-> "hola"],
        [role |-> "user", content |-> "que tablas hay"]>> }

\* the arguments object of a directive of the tool execute_mcp_command
ArgDicts ==
    { [k \in {"action"} |-> "list_tables"],
      [k \in {"action", "table_name"} |->
          IF k = "action" THEN "describe_table" ELSE "productos"],
      [k \in {"action", "query"} |->
          IF k = "action" THEN "execute_query" ELSE "SELECT 1"],
      [k \in {"action", "table_name"} |->
          IF k = "action" THEN "get_table_content" ELSE "productos"],
      [k \in {"action", "table_name"} |->
          IF k = "action" THEN "get_table_content" ELSE "nonexistent_table"],
      [k \in {"action"} |-> "get_table_content"],
      [k \in {"action"} |-> "drop_everything"],
      [k \in {"table_name"} |-> "productos"] }

\* function.arguments: an object, the JSON text of an object, or text that is no JSON
Arguments ==
    [encoding : {"object", "text"}, parses : {TRUE}, value : ArgDicts]
      \cup {[encoding |-> "text", parses |-> FALSE, value |-> EmptyDict]}

CallIds == {"call_a", "call_b"}
ToolCalls == [id : CallIds, arguments : Arguments]
ToolCallLists == UNION {[1..n -> ToolCalls] : n \in 0..MaxToolCalls}

\* message.tool_calls: key absent, null, or a list
ToolCallField ==
    {[shape |-> "absent", calls |-> <<>>], [shape |-> "null", calls |-> <<>>]}
      \cup [shape : {"list"}, calls : ToolCallLists]

\* the usage objects and top-level objects the upstream sends
UsageFull ==
    [k \in {"prompt_tokens", "completion_tokens", "total_tokens"} |->
        IF k = "prompt_tokens" THEN 7 ELSE IF k = "completion_tokens" THEN 5 ELSE 12]
UsagePartial ==
    [k \in {"prompt_tokens", "prompt_tokens_details"} |->
        IF k = "prompt_tokens" THEN 7 ELSE [j \in {"cached_tokens"} |-> 2]]
UsageDetailed ==
    [k \in {"total_tokens", "prompt_tokens_details", "completion_tokens_details"} |->
        IF k = "total_tokens" THEN 12
        ELSE IF k = "prompt_tokens_details" THEN EmptyDict
        ELSE [j \in {"cached_tokens", "reasoning_tokens", "total_tokens"} |->
                 IF j = "cached_tokens" THEN 1 ELSE IF j = "reasoning_tokens" THEN 3 ELSE 5]]
TopLevels ==
    { EmptyDict,
      [k \in {"model"} |-> "upstream/model"],
      [k \in {"model", "usage"} |-> IF k = "model" THEN "upstream/model" ELSE UsageFull],
      [k \in {"usage"} |-> UsagePartial],
      [k \in {"usage"} |-> UsageDetailed] }

Contents == {"respuesta", ""}

\* a response of the upstream endpoint; a non-200 response carries no payload
Responses ==
    [status : {200}, text : {"ok"}, content : Contents, top : TopLevels]
      \cup [status : {201}, text : {"created"}, content : {"respuesta"}, top : {EmptyDict}]
      \cup [status : {500}, text : {"upstream failed"}, content : {""}, top : {EmptyDict}]

NoMessage == [content |-> "", tool_calls |-> [shape |-> "absent", calls |-> <<>>]]
NoData == [message |-> NoMessage, top |-> EmptyDict]
NoToolResults == [set |-> FALSE, entries |-> <<>>]

\* lines 250-270: a token-detail block, None when the upstream object is empty
TokenDetails(d) ==
    IF d = EmptyDict THEN [none |-> TRUE]
    ELSE [cached_tokens |-> Get(d, "cached_tokens", 0),
          reasoning_tokens |-> Get(d, "reasoning_tokens", 0),
          total_tokens |-> Get(d, "total_tokens", 0)]

\* _process_openrouter_response handing the upstream usage object on as it came
ProcessOpenrouterResponseRawUsage(response) ==
    [content |-> response.message.content,
     model |-> Get(response.top, "model", ModelName),
     usage |-> Get(response.top, "usage", EmptyDict),
     tool_results |-> NoToolResults]

\* lines 241-273: _process_openrouter_response
ProcessOpenrouterResponse(response) ==
    LET usage_data == Get(response.top, "usage", EmptyDict)
    IN [content |-> response.message.content,
        model |-> Get(response.top, "model", ModelName),
        usage |-> [prompt_tokens |-> Get(usage_data, "prompt_tokens", 0),
                   completion_tokens |-> Get(usage_data, "completion_tokens", 0),
                   total_tokens |-> Get(usage_data, "total_tokens", 0),
                   prompt_tokens_details |->
                       TokenDetails(Get(usage_data, "prompt_tokens_details", EmptyDict)),
                   completion_tokens_details |->
                       TokenDetails(Get(usage_data, "completion_tokens_details", EmptyDict))],
        tool_results |-> NoToolResults]

\* what class MCPService defines (mcp_service.py lines 49-193)
MCPServiceAttributes == {"db_service", "ai_service", "execute_command", "get_help"}

ErrJson == "Error inesperado: JSONDecodeError"
ErrAttribute ==
    "Error inesperado: 'MCPService' object has no attribute 'execute_mcp_command'"

\* lines 164-190: the entry one directive leaves in results. json.loads refuses
\* text that is no JSON; otherwise the attribute mcp_service.execute_mcp_command
\* is looked up before the arguments are, and MCPService has no such attribute:
\* both are caught by `except Exception`
ToolEntry(tool_call) ==
    IF tool_call.arguments.encoding = "text" /\ ~tool_call.arguments.parses
      THEN [tool_call_id |-> tool_call.id, error |-> ErrJson]
      ELSE [tool_call_id |-> tool_call.id, error |-> ErrAttribute]

\* line 208: json.dumps of what a result entry carries
JsonDumps(entry) ==
    IF "result" \in DOMAIN entry THEN "<result>"
    ELSE IF entry.error = ErrJson
      THEN "{\"error\": \"Error inesperado: JSONDecodeError\"}"
      ELSE "{\"error\": \"Error inesperado: 'MCPService' object has no attribute\"}"

\* lines 135-138: the messages of the first submission
ApiMessages(msgs) == <<SystemMessage>> \o msgs

\* the second submission built without the conversation of the caller
SecondMessagesWithoutConversation(msgs, tool_calls, res) ==
    <<SystemMessage>>
      \o <<[role |-> "assistant", content |-> "None", tool_calls |-> tool_calls]>>
      \o [k \in 1..Len(res) |->
            [role |-> "tool", tool_call_id |-> res[k].tool_call_id,
             content |-> JsonDumps(res[k])]]

\* lines 193-209: the messages of the second submission
SecondMessages(msgs, tool_calls, res) ==
    <<SystemMessage>> \o msgs
      \o <<[role |-> "assistant", content |-> "None", tool_calls |-> tool_calls]>>
      \o [k \in 1..Len(res) |->
            [role |-> "tool", tool_call_id |-> res[k].tool_call_id,
             content |-> JsonDumps(res[k])]]

\* lines 153 and 223: Exception(f"Error en la API: {response.text}")
ApiError(r) == [kind |-> "Exception", message |-> [texto |-> "Error en la API", body |-> r.text]]
\* line 163 with tool_calls null: iterating None
NotIterable == [kind |-> "Exception", message |-> [texto |-> "'NoneType' object is not iterable"]]

InitChat ==
    /\ chatPc = "idle"
    /\ chatMessages = <<>>
    /\ submissions = <<>>
    /\ statuses = <<>>
    /\ message = NoMessage
    /\ data = NoData
    /\ tcIdx = 0
    /\ results = <<>>
    /\ chatResult = NoResult

\* lines 133-150: the call is made and the first submission posted
ProcessChat(msgs) ==
    /\ chatPc = "idle"
    /\ chatMessages' = msgs
    /\ submissions' = Append(submissions, [messages |-> ApiMessages(msgs), tools |-> TRUE])
    /\ chatPc' = "first"
    /\ UNCHANGED <<statuses, message, data, tcIdx, results, chatResult>>
    /\ UNCHANGED <<orderVars, dbVars, appVars>>

\* the second submission is posted (lines 192-220)
PostSecond(tool_calls, res) ==
    submissions' = Append(submissions,
        [messages |-> SecondMessages(chatMessages, tool_calls, res), tools |-> FALSE])

\* lines 152-161 and 230-231: the first response is read
FirstResponse(r, tcs) ==
    /\ chatPc = "first"
    /\ statuses' = Append(statuses, r.status)
    /\ IF r.status # 200
         THEN /\ chatResult' = ApiError(r)
              /\ chatPc' = "done"
              /\ UNCHANGED <<message, data, tcIdx, results, submissions>>
         ELSE LET msg == [content |-> r.content, tool_calls |-> tcs]
                  d == [message |-> msg, top |-> r.top]
              IN /\ message' = msg
                 /\ data' = d
                 /\ CASE tcs.shape = "absent" ->
                           /\ chatResult' = [kind |-> "return",
                                             value |-> ProcessOpenrouterResponse(d)]
                           /\ chatPc' = "done"
                           /\ UNCHANGED <<tcIdx, results, submissions>>
                      [] tcs.shape = "null" ->
                           /\ chatResult' = NotIterable
                           /\ chatPc' = "done"
                           /\ UNCHANGED <<tcIdx, results, submissions>>
                      [] tcs.shape = "list" ->
                           /\ results' = <<>>
                           /\ UNCHANGED chatResult
                           /\ IF Len(tcs.calls) = 0
                                THEN /\ chatPc' = "second"
                                     /\ PostSecond(tcs.calls, <<>>)
                                     /\ UNCHANGED tcIdx
                                ELSE /\ chatPc' = "tools"
                                     /\ tcIdx' = 1
                                     /\ UNCHANGED submissions
    /\ UNCHANGED chatMessages
    /\ UNCHANGED <<orderVars, dbVars, appVars>>

\* the loop body without the try/except of lines 164-190: the failure of a
\* directive leaves process_chat
HandleToolCallUnprotected ==
    /\ chatPc = "tools"
    /\ chatResult' = [kind |-> "Exception",
                      message |-> [texto |-> ToolEntry(message.tool_calls.calls[tcIdx]).error]]
    /\ chatPc' = "done"
    /\ UNCHANGED <<chatMessages, submissions, statuses, message, data, tcIdx, results>>
    /\ UNCHANGED <<orderVars, dbVars, appVars>>

\* lines 163-190: one directive is handled; after the last one the second
\* submission is posted (lines 192-220)
HandleToolCall ==
    /\ chatPc = "tools"
    /\ results' = Append(results, ToolEntry(message.tool_calls.calls[tcIdx]))
    /\ IF tcIdx < Len(message.tool_calls.calls)
         THEN /\ tcIdx' = tcIdx + 1
              /\ UNCHANGED <<chatPc, submissions>>
         ELSE /\ chatPc' = "second"
              /\ PostSecond(message.tool_calls.calls, results')
              /\ UNCHANGED tcIdx
    /\ UNCHANGED <<chatMessages, statuses, message, data, chatResult>>
    /\ UNCHANGED <<orderVars, dbVars, appVars>>

\* lines 222-228: the second response is read
SecondResponse(r, tcs) ==
    /\ chatPc = "second"
    /\ statuses' = Append(statuses, r.status)
    /\ IF r.status # 200
         THEN /\ chatResult' = ApiError(r)
              /\ UNCHANGED data
         ELSE LET d == [message |-> [content |-> r.content, tool_calls |-> tcs],
                        top |-> r.top]
              IN /\ data' = d
                 /\ chatResult' =
                      [kind |-> "return",
                       value |-> [ProcessOpenrouterResponse(d) EXCEPT
                                     !.tool_results = [set |-> TRUE, entries |-> results]]]
    /\ chatPc' = "done"
    /\ UNCHANGED <<chatMessages, submissions, message, tcIdx, results>>
    /\ UNCHANGED <<orderVars, dbVars, appVars>>

\* what the second response may carry as tool_calls
SecondToolCallField ==
    {[shape |-> "absent", calls |-> <<>>]}
      \cup [shape : {"list"},
            calls : {<<[id |-> "call_a",
                        arguments |-> [encoding |-> "object", parses |-> TRUE,
                                       value |-> [k \in {"action"} |-> "list_tables"]]]>>}]

NextChat ==
    \/ chatPc = "idle" /\ \E msgs \in Conversations : ProcessChat(msgs)
    \/ chatPc = "first" /\ \E r \in Responses : \E tcs \in ToolCallField :
                               FirstResponse(r, tcs)
    \/ HandleToolCall
    \/ chatPc = "second" /\ \E r \in Responses : \E tcs \in SecondToolCallField :
                                SecondResponse(r, tcs)

(***************************************************************************)
(* DatabaseService (app/services/db_service.py).                           *)
(*                                                                         *)
(* Every operation obtains its connection with                             *)
(*     with self._get_connection() as conn:                                *)
(* _get_connection returns a new psycopg2 connection.  Leaving the with    *)
(* block of a psycopg2 connection commits or rolls back its transaction    *)
(* and does not close it; no method calls conn.close().  A connection is   *)
(* "held" inside its with block, "open" once the block is left, and        *)
(* "closed" when the interpreter finalizes the unreferenced object.  Its   *)
(* transaction (tx) is "none" until a statement ran on it, then "active",  *)
(* and "committed" or "rolledback" once conn.commit(), conn.rollback() or  *)
(* the end of the with block ended it.                                     *)
(***************************************************************************)
MaxDbOps == 2        \* operations run one after the other

\* tables of the public schema
Tables == {"pedidos", "productos"}
TableNames == Tables \cup {"nonexistent_table"}

\* SQL text as a sequence of words; up tells whether the word is in upper case
Word(w, up) == [w |-> w, up |-> up]
Queries ==
    { <<Word("select", TRUE), Word("1", FALSE)>>,
      <<Word("update", FALSE), Word("productos", FALSE)>>,
      <<Word("alter", TRUE), Word("table", TRUE), Word("productos", FALSE)>>,
      <<Word("drop", TRUE), Word("database", FALSE), Word("tienda", FALSE)>>,
      <<Word("select", FALSE), Word("grant", FALSE), Word("all", TRUE)>>,
      <<Word("drop", FALSE), Word("schema", TRUE)>>,
      <<Word("alter", TRUE), Word("database", TRUE)>>,
      <<Word("alter", FALSE), Word("schema", FALSE)>>,
      <<Word("create", TRUE), Word("database", FALSE)>>,
      <<Word("create", FALSE), Word("schema", TRUE)>>,
      <<Word("drop", TRUE), Word("role", TRUE)>>,
      <<Word("create", FALSE), Word("role", FALSE)>>,
      <<Word("revoke", TRUE), Word("all", FALSE)>>,
      <<Word("database", TRUE), Word("drop", TRUE)>>,
      <<Word("drop", TRUE), Word("table", FALSE), Word("database", FALSE)>> }

\* query.lower().strip()
Lower(q) == [i \in 1..Len(q) |-> q[i].w]

\* line 222-226: dangerous_keywords
DangerousKeywords ==
    { <<"drop", "database">>, <<"drop", "schema">>, <<"alter", "database">>,
      <<"alter", "schema">>, <<"create", "database">>, <<"create", "schema">>,
      <<"drop", "role">>, <<"create", "role">>, <<"grant", "all">>,
      <<"revoke", "all">> }

\* keyword in text
Contains(text, keyword) ==
    \E i \in 1..Len(text) :
       /\ i + Len(keyword) - 1 <= Len(text)
       /\ \A j \in 1..Len(keyword) : text[i + j - 1] = keyword[j]

\* text.startswith(prefix)
StartsWith(text, prefix) ==
    /\ Len(prefix) <= Len(text)
    /\ \A j \in 1..Len(prefix) : text[j] = prefix[j]

\* _is_safe_query comparing the statement as it was written, without lower()
IsSafeQueryCaseSensitive(q) ==
    \A keyword \in DangerousKeywords :
       ~(Contains(Lower(q), keyword) /\ \A i \in 1..Len(q) : ~q[i].up)

\* lines 213-234: _is_safe_query
IsSafeQuery(q) == \A keyword \in DangerousKeywords : ~Contains(Lower(q), keyword)

\* lines 321 and 345: the statement alters, drops or renames a table
IsTableDdl(q) ==
    \E op \in {<<"alter", "table">>, <<"drop", "table">>, <<"rename", "table">>} :
       StartsWith(Lower(q), op)

\* line 332
IsSelect(q) == StartsWith(Lower(q), <<"select">>)

\* the columns of the tables of the public schema
Columns ==
    [t \in Tables |-> IF t = "pedidos" THEN {"id", "total"} ELSE {"id", "precio", "stock"}]

\* the order_by argument of get_table_content: a column, or any other text
OrderBys == {"precio", "id; DROP TABLE productos"}

DbOperations ==
    [name : {"list_tables"}]
      \cup [name : {"get_table_structure", "get_table_content", "_table_exists"},
            table : TableNames]
      \cup [name : {"get_table_content"}, table : TableNames, order_by : OrderBys]
      \cup [name : {"execute_query"}, query : Queries]

\* lines 166-171 and 186: the caller-supplied identifiers that the f-strings of
\* get_table_content place in the SQL text its connection executes
Interpolated(op, stage) ==
    IF op.name = "get_table_content" /\ stage = "connect"
      THEN {[kind |-> "table", name |-> op.table, table |-> op.table]}
             \cup (IF "order_by" \in DOMAIN op
                     THEN {[kind |-> "column", name |-> op.order_by, table |-> op.table]}
                     ELSE {})
      ELSE {}

\* exceptions of app/exceptions.py
TableNotFoundError(t) ==
    [kind |-> "TableNotFoundError", code |-> 404,
     message |-> [texto |-> "La tabla no existe", table_name |-> t]]
QueryError(q, e) ==
    [kind |-> "QueryError", code |-> 400,
     message |-> [texto |-> "Error al ejecutar la consulta", error |-> e]]
ConnectionError(e) ==
    [kind |-> "ConnectionError", code |-> 503,
     message |-> [texto |-> "Error de conexion a la base de datos", error |-> e]]

\* the stage an operation starts at
FirstStage(op) ==
    IF op.name \in {"get_table_structure", "get_table_content", "_table_exists"}
      THEN "exists_connect"
    ELSE IF op.name = "execute_query" /\ IsTableDdl(op.query) THEN "before_connect"
    ELSE "connect"

\* what the operation raises to its caller when exception e (its kind) is raised
\* at a stage of it: the handlers of lines 105, 146-149, 208-211, 369-376, 391
Raised(op, e) ==
    CASE op.name = "list_tables" ->
            DatabaseError([texto |-> "Error al listar tablas", causa |-> e])
      [] op.name = "get_table_structure" ->
            DatabaseError([texto |-> "Error al obtener estructura de la tabla", causa |-> e])
      [] op.name = "get_table_content" ->
            DatabaseError([texto |-> "Error al obtener contenido de la tabla", causa |-> e])
      [] op.name = "_table_exists" ->
            DatabaseError([texto |-> "Error al verificar existencia de la tabla", causa |-> e])
      [] op.name = "execute_query" -> QueryError(op.query, e)

\* how the end of a with block leaves the transaction: commit when the block
\* ended normally, rollback when an exception left it; a transaction that
\* conn.commit() or conn.rollback() ended already stays as it is
Ended(tx, ok) ==
    IF tx \in {"committed", "rolledback"} THEN tx
    ELSE IF ok THEN "committed" ELSE "rolledback"

\* the with blocks being left, normally (ok) or by an exception: every held
\* connection ends its transaction and stays open
Released(conns, ok) ==
    [i \in 1..Len(conns) |->
        IF conns[i].state = "held"
          THEN [conns[i] EXCEPT !.state = "open", !.tx = Ended(conns[i].tx, ok)]
          ELSE conns[i]]

\* the connection opened last among those held
LastHeld(conns) ==
    LET held == {i \in 1..Len(conns) : conns[i].state = "held"}
    IN CHOOSE i \in held : \A j \in held : j <= i

\* the with block of the connection opened last is left normally
ReleasedLast(conns) ==
    [conns EXCEPT ![LastHeld(conns)].state = "open",
                  ![LastHeld(conns)].tx = Ended(conns[LastHeld(conns)].tx, TRUE)]

InitDb ==
    /\ dbPc = "idle"
    /\ dbOp = [name |-> "none"]
    /\ dbConns = <<>>
    /\ dbResult = NoResult
    /\ dbOps = 0

\* an operation of the service is called; execute_query refuses an unsafe
\* statement before any connection (lines 312-316, wrapped by line 376)
CallDb(op) ==
    /\ dbPc = "idle"
    /\ dbOps < MaxDbOps
    /\ dbOps' = dbOps + 1
    /\ dbOp' = op
    /\ IF op.name = "execute_query" /\ ~IsSafeQuery(op.query)
         THEN /\ dbResult' = Raised(op, "ValidationError")
              /\ dbPc' = "idle"
         ELSE /\ dbResult' = NoResult
              /\ dbPc' = FirstStage(op)
    /\ UNCHANGED dbConns
    /\ UNCHANGED <<orderVars, chatVars, appVars>>

ConnectStages == {"exists_connect", "before_connect", "connect", "after_connect"}
QueryStage(stage) ==
    CASE stage = "exists_connect" -> "exists_query"
      [] stage = "before_connect" -> "before_query"
      [] stage = "connect" -> "query"
      [] stage = "after_connect" -> "after_query"

\* lines 58-61: _get_connection returns a new connection, the with block is entered
OpenConnection ==
    /\ dbPc \in ConnectStages
    /\ dbConns' = Append(dbConns, [by |-> dbPc, state |-> "held", op |-> dbOps, tx |-> "none",
                                   interpolated |-> Interpolated(dbOp, dbPc)])
    /\ dbPc' = QueryStage(dbPc)
    /\ UNCHANGED <<dbOp, dbResult, dbOps>>
    /\ UNCHANGED <<orderVars, chatVars, appVars>>

\* the operation ends raising what its handlers make of exception e; every with
\* block is left on the way
DbFails(e) ==
    /\ dbConns' = Released(dbConns, FALSE)
    /\ dbResult' = Raised(dbOp, e)
    /\ dbPc' = "idle"
    /\ UNCHANGED <<dbOp, dbOps>>
    /\ UNCHANGED <<orderVars, chatVars, appVars>>

\* lines 62-63: psycopg2.connect fails
OpenConnectionFails ==
    /\ dbPc \in ConnectStages
    /\ DbFails("ConnectionError")

\* cur.execute or conn.commit raises
DbStatementFails ==
    /\ dbPc \in {"exists_query", "before_query", "query", "commit", "after_query"}
    /\ DbFails("psycopg2.Error")

\* the operation returns value v, leaving every with block
DbReturns(v) ==
    /\ dbConns' = Released(dbConns, TRUE)
    /\ dbResult' = [kind |-> "return", value |-> v]
    /\ dbPc' = "idle"
    /\ UNCHANGED <<dbOp, dbOps>>
    /\ UNCHANGED <<orderVars, chatVars, appVars>>

\* the inner operation (_table_exists, discover_tables) returns to the stage next
DbContinues(next) ==
    /\ dbConns' = ReleasedLast(dbConns)
    /\ dbPc' = next
    /\ UNCHANGED <<dbOp, dbResult, dbOps>>
    /\ UNCHANGED <<orderVars, chatVars, appVars>>

\* lines 378-390 and their callers at lines 112-113 and 162-163
TableExistsQuery ==
    /\ dbPc = "exists_query"
    /\ IF dbOp.name = "_table_exists"
         THEN DbReturns([exists |-> dbOp.table \in Tables])
         ELSE IF dbOp.table \in Tables
           THEN DbContinues("connect")
           ELSE /\ dbConns' = Released(dbConns, TRUE)
                /\ dbResult' = TableNotFoundError(dbOp.table)
                /\ dbPc' = "idle"
                /\ UNCHANGED <<dbOp, dbOps>>
                /\ UNCHANGED <<orderVars, chatVars, appVars>>

\* lines 236-301: discover_tables called before (line 323) and after (line 346)
\* the statement
DiscoverTablesQuery ==
    \/ dbPc = "before_query" /\ DbContinues("connect")
    \/ dbPc = "after_query" /\
          \E texto \in {"Operacion ejecutada correctamente",
                        "Operacion completada. Se detectaron cambios"} :
             DbReturns([status |-> "success", message |-> texto])

\* lines 94-104, 117-145, 182-207, 329-337: the statements of the operation itself
MainQuery ==
    /\ dbPc = "query"
    /\ CASE dbOp.name = "list_tables" ->
              DbReturns([status |-> "success", tables |-> <<"pedidos", "productos">>])
         [] dbOp.name = "get_table_structure" ->
              DbReturns([status |-> "success", table |-> dbOp.table])
         [] dbOp.name = "get_table_content" ->
              DbReturns([status |-> "success", table |-> dbOp.table])
         [] dbOp.name = "execute_query" ->
              IF IsSelect(dbOp.query)
                THEN DbReturns([status |-> "success", results |-> <<>>])
                ELSE /\ dbPc' = "commit"
                     /\ dbConns' = [dbConns EXCEPT ![LastHeld(dbConns)].tx = "active"]
                     /\ UNCHANGED <<dbOp, dbResult, dbOps>>
                     /\ UNCHANGED <<orderVars, chatVars, appVars>>

\* lines 340-363: conn.commit() of a statement that is no SELECT
CommitQuery ==
    /\ dbPc = "commit"
    /\ IF IsTableDdl(dbOp.query)
         THEN /\ dbPc' = "after_connect"
              /\ dbConns' = [dbConns EXCEPT ![LastHeld(dbConns)].tx = "committed"]
              /\ UNCHANGED <<dbOp, dbResult, dbOps>>
              /\ UNCHANGED <<orderVars, chatVars, appVars>>
         ELSE DbReturns([status |-> "success", message |-> "Operacion ejecutada correctamente"])

\* the interpreter finalizes a connection object nothing refers to: the
\* connection is closed
FinalizeConnection(i) ==
    /\ i \in 1..Len(dbConns)
    /\ dbConns[i].state = "open"
    /\ dbConns' = [dbConns EXCEPT ![i].state = "closed"]
    /\ UNCHANGED <<dbPc, dbOp, dbResult, dbOps>>
    /\ UNCHANGED <<orderVars, chatVars, appVars>>

NextDb ==
    \/ dbPc = "idle" /\ \E op \in DbOperations : CallDb(op)
    \/ OpenConnection
    \/ OpenConnectionFails
    \/ DbStatementFails
    \/ TableExistsQuery
    \/ DiscoverTablesQuery
    \/ MainQuery
    \/ CommitQuery
    \/ \E i \in 1..Len(dbConns) : FinalizeConnection(i)

\* the routes of app/routers/db_router.py: the status code answered for what
\* the service returned or raised
HttpDb(r) ==
    IF r.kind = "return" THEN 200
    ELSE IF r.kind = "TableNotFoundError" THEN 404
    ELSE IF r.kind \in {"QueryError", "ValidationError"} THEN 400
    ELSE IF r.kind \in {"DatabaseError", "ConnectionError"} THEN r.code
    ELSE 500

(***************************************************************************)
(* POST /mcp, mcp_endpoint (app/main.py lines 56-77).                      *)
(***************************************************************************)
MaxMcpCalls == 3     \* requests handled one after the other

\* request bodies: the key action absent, empty, or a name; params absent or an object
McpActions == {"", "list_tables", "describe_table", "execute_query",
               "get_table_content", "drop_everything"}
McpParams ==
    { EmptyDict,
      [k \in {"table_name"} |-> "productos"],
      [k \in {"table_name"} |-> "nonexistent_table"],
      [k \in {"query"} |-> "SELECT 1"],
      [k \in {"query"} |-> "DROP TABLE productos"] }
McpRequests ==
    { EmptyDict }
      \cup { [k \in {"params"} |-> ps] : ps \in McpParams }
      \cup { [k \in {"action"} |-> a] : a \in McpActions }
      \cup { [k \in {"action", "params"} |-> IF k = "action" THEN f[1] ELSE f[2]] :
                 f \in McpActions \X McpParams }

\* fastapi.HTTPException(status_code, detail)
HTTPException(status_code, detail) ==
    [kind |-> "HTTPException", status_code |-> status_code, detail |-> detail]

MsgRequiereAction == "Se requiere el parametro 'action'"
\* str(e) of the HTTPException of line 67
StrRequiereAction == "400: Se requiere el parametro 'action'"
\* str(e) of the AttributeError of line 69
StrNoAttribute == "'MCPService' object has no attribute 'execute_mcp_command'"

\* lines 75-77 without `except Exception`: what the try block raised is the answer
\* lines 75-77: `except Exception` catches what the try block raised, the
\* HTTPException of line 67 included, and answers 500 with str(e)
McpHandled(e) ==
    HTTPException(500, IF e.kind = "HTTPException" THEN StrRequiereAction ELSE StrNoAttribute)

\* lines 61-77: the answer to one request. `not action` holds for a missing
\* and for an empty action; otherwise the attribute execute_mcp_command is
\* looked up on mcp_service, which has none (MCPServiceAttributes), before
\* anything is called
McpAnswer(request) ==
    LET action == Get(request, "action", "")
    IN IF action = ""
         THEN McpHandled(HTTPException(400, MsgRequiereAction))
         ELSE McpHandled([kind |-> "AttributeError"])

InitMcp ==
    /\ mcpRequest = EmptyDict
    /\ mcpResponse = NoResult
    /\ mcpCalls = 0

\* one request is handled
McpEndpoint(request) ==
    /\ mcpCalls < MaxMcpCalls
    /\ mcpCalls' = mcpCalls + 1
    /\ mcpRequest' = request
    /\ mcpResponse' = McpAnswer(request)
    /\ UNCHANGED <<orderVars, chatVars, dbVars, bootVars>>

NextMcp == \E request \in McpRequests : McpEndpoint(request)

(***************************************************************************)
(* Start of the application: the module-level statements that importing    *)
(* app.main executes, in order.  main.py line 7 imports the routers before *)
(* anything else: chat_router imports app.services.ai_service, whose       *)
(* line 5 imports app.services.mcp_service, whose line 16 imports          *)
(* app.services.db_service (app.config first, then DatabaseService() at    *)
(* its last line) and whose line 17 is                                     *)
(*     from app.services.ai_service import AIService                       *)
(* while app.services.ai_service is still executing its own line 5.  An    *)
(* exception that leaves a module-level statement ends the import: the     *)
(* process serves nothing.                                                 *)
(***************************************************************************)
EnvVars == {"DATABASE_URL", "OPENAI_API_KEY", "OPENAI_BASE_URL", "MODEL_NAME"}
\* a variable is absent, set to the empty string, or set to a value
Environments == [EnvVars -> {"absent", "empty", "set"}]
FullEnvironment == [v \in EnvVars |-> "set"]
\* os.getenv(v) is truthy
Getenv(e, v) == e[v] = "set"

\* main.py line 17
required_env_vars == {"DATABASE_URL", "OPENAI_API_KEY", "OPENAI_BASE_URL"}

Serving == [kind |-> "serving"]
StartError(kind, texto) == [kind |-> kind, message |-> texto]

\* the names module app.services.ai_service has bound once it is complete
BoundNamesWhenComplete ==
    {"os", "AsyncOpenAI", "List", "Dict", "Any", "Optional", "ChatMessage", "ChatResponse",
     "mcp_service", "json", "httpx", "DatabaseError", "TableNotFoundError", "QueryError",
     "ValidationError", "load_dotenv", "Path", "BASE_DIR", "AIService", "ai_service"}

\* ai_service.py lines 1-4: the names the module has bound when its line 5 runs
BoundNames ==
    {"os", "AsyncOpenAI", "List", "Dict", "Any", "Optional", "ChatMessage", "ChatResponse"}

\* what follows mcp_service.py line 17 once it succeeds: AIService() (lines
\* 36-40 of ai_service.py), then main.py lines 17-20, then the application
RestOfStartup(e) ==
    IF ~Getenv(e, "OPENAI_API_KEY")
      THEN StartError("ValueError", "No se encontro la clave de API de OpenRouter")
    ELSE IF \E v \in required_env_vars : ~Getenv(e, v)
      THEN StartError("ValueError", "Faltan las siguientes variables de entorno")
    ELSE Serving

InitBoot(e) ==
    /\ env = e
    /\ bootPc = "start"
    /\ bootResult = NoResult

\* main.py line 7 down to db_service.py line 13: app.config builds Settings()
ImportSettings ==
    /\ bootPc = "start"
    /\ bootPc' = "db_service"
    /\ UNCHANGED <<env, bootResult>>
    /\ UNCHANGED <<orderVars, chatVars, dbVars, mcpVars>>

\* db_service.py lines 16-20 (run by its last line): DatabaseService.__init__
CreateDatabaseService ==
    /\ bootPc = "db_service"
    /\ IF Getenv(env, "DATABASE_URL")
         THEN /\ bootPc' = "verify"
              /\ UNCHANGED bootResult
         ELSE /\ bootPc' = "failed"
              /\ bootResult' = StartError("ConnectionError", "No se encontro la URL de conexion")
    /\ UNCHANGED env
    /\ UNCHANGED <<orderVars, chatVars, dbVars, mcpVars>>

\* db_service.py line 23: _verify_connection reaches the database
VerifyConnection ==
    /\ bootPc = "verify"
    /\ bootPc' = "mcp_import"
    /\ UNCHANGED <<env, bootResult>>
    /\ UNCHANGED <<orderVars, chatVars, dbVars, mcpVars>>

\* db_service.py lines 73-74: _verify_connection fails
VerifyConnectionFails ==
    /\ bootPc = "verify"
    /\ bootPc' = "failed"
    /\ bootResult' = StartError("ConnectionError", "Error al verificar la conexion")
    /\ UNCHANGED env
    /\ UNCHANGED <<orderVars, chatVars, dbVars, mcpVars>>

\* mcp_service.py line 17: from app.services.ai_service import AIService
ImportAIService ==
    /\ bootPc = "mcp_import"
    /\ bootResult' = IF "AIService" \in BoundNames
                       THEN RestOfStartup(env)
                       ELSE StartError("ImportError", "cannot import name 'AIService'")
    /\ bootPc' = IF bootResult' = Serving THEN "serving" ELSE "failed"
    /\ UNCHANGED env
    /\ UNCHANGED <<orderVars, chatVars, dbVars, mcpVars>>

NextStartup ==
    \/ ImportSettings
    \/ CreateDatabaseService
    \/ VerifyConnection
    \/ VerifyConnectionFails
    \/ ImportAIService

Init == InitOrder /\ InitChat /\ InitDb /\ InitMcp /\ InitBoot(FullEnvironment)

InitStartup ==
    /\ InitOrder /\ InitChat /\ InitDb /\ InitMcp
    /\ \E e \in Environments : InitBoot(e)

Next ==
    \E c \in Calls :
        \/ pc[c] = "idle" /\ \E its \in ItemLists : CrearPedido(c, its)
        \/ Connect(c)
        \/ ConnectFails(c)
        \/ SelectForUpdate(c)
        \/ UpdateStock(c)
        \/ InsertPedido(c)
        \/ InsertDetalle(c)
        \/ Commit(c)
        \/ StatementFails(c)
        \/ LockTimeout(c)
        \/ Rollback(c)
        \/ Propagate(c)

Spec == Init /\ [][Next]_vars

\* what call c does once it has started, unless a connection or a statement
\* happens to fail: the statements of crear_pedido run one after the other,
\* each returns when the database answers, and a statement that waits for a
\* lock is cancelled by the server
Proceeds(c) ==
    \/ Connect(c)
    \/ SelectForUpdate(c)
    \/ UpdateStock(c)
    \/ InsertPedido(c)
    \/ InsertDetalle(c)
    \/ Commit(c)
    \/ LockTimeout(c)
    \/ Rollback(c)
    \/ Propagate(c)

\* the calls of Next, each item asking for one unit
LiveItemLists == {its \in ItemLists : \A k \in 1..Len(its) : its[k].cantidad = 1}

NextLive ==
    \E c \in Calls :
        \/ pc[c] = "idle" /\ \E its \in LiveItemLists : CrearPedido(c, its)
        \/ ConnectFails(c)
        \/ StatementFails(c)
        \/ Proceeds(c)

\* the worker of every started call keeps running and the database server
\* keeps answering
SpecLive == Init /\ [][NextLive]_vars /\ \A c \in Calls : WF_vars(Proceeds(c))


SpecChat == Init /\ [][NextChat]_vars

SpecDb == Init /\ [][NextDb]_vars

SpecMcp == Init /\ [][NextMcp]_vars

SpecStartup == InitStartup /\ [][NextStartup]_vars

(***************************************************************************)
(* POST /api/pedidos (app/routers/pedido_router.py): the status code the   *)
(* route answers with for what crear_pedido returned or raised.            *)
(***************************************************************************)
HttpPedido(r) ==
    IF r.kind = "return" THEN 200
    ELSE IF r.kind = "ValidationError" THEN 400
    ELSE IF r.kind = "DatabaseError" THEN r.code
    ELSE 500

(***************************************************************************)
(* Helpers of the properties.                                              *)
(***************************************************************************)
\* quantity of product p asked for by the item list its
CantidadPedida(its, p) == Decrementado(its, p)

\* sum of price x quantity over the item list its (every product existing)
TotalDe(its) ==
    SumSeq([k \in 1..Len(its) |-> Precio[its[k].producto_id] * its[k].cantidad], Len(its))

Exitosa(c) == result[c].kind = "return"
Fallida(c) == pc[c] = "done" /\ result[c].kind \notin {"none", "return"}
Sola(c) == \A d \in Calls \ {c} : pc[d] = "idle"
TodosExisten(its) == \A k \in 1..Len(its) : its[k].producto_id \in Products

\* quantity of p taken by the calls of the set cs
RECURSIVE PedidaPor(_, _)
PedidaPor(cs, p) ==
    IF cs = {} THEN 0
    ELSE LET c == CHOOSE x \in cs : TRUE
         IN CantidadPedida(items[c], p) + PedidaPor(cs \ {c}, p)

\* the step in which call c gets the row of product p from SELECT ... FOR UPDATE
LeeProducto(c, p) ==
    /\ pc[c] = "select"
    /\ items[c][idx[c]].producto_id = p
    /\ \/ pc'[c] = "update"
       \/ pc'[c] = "except" /\ exc'[c].kind = "ValidationError"

(***************************************************************************)
(* C1. All-or-nothing order placement: every persisted Order row was       *)
(* created by a call that passed the stock check and decremented stock for *)
(* every one of its items, every detail row belongs to a persisted Order,  *)
(* and the committed stock differs from the initial stock by exactly the   *)
(* quantities of the calls that succeeded: a call that failed, or has not  *)
(* committed yet, left no Order row, no detail row and no stock change.    *)
(***************************************************************************)
C1_AllOrNothing ==
    /\ \A o \in pedidos :
          \E c \in Calls :
             /\ Exitosa(c)
             /\ result[c].pedido_id = o.id
             /\ o.usuario_id = c
             /\ Len(items[c]) > 0
             /\ verificados[c] = Len(items[c])
    /\ \A d \in detalles : \E o \in pedidos : o.id = d.pedido_id
    /\ \A c \in Calls :
          ~Exitosa(c) =>
             /\ \A o \in pedidos : o.usuario_id # c
             /\ \A d \in detalles : \A o \in pedidos :
                   o.id = d.pedido_id => o.usuario_id # c
    /\ \A p \in Products :
          stock[p] = StockInicial[p] - PedidaPor({c \in Calls : Exitosa(c)}, p)

\* a call failed after it had decremented an item, next to a call that committed
C1_Witness ==
    \E c, d \in Calls :
       /\ Fallida(c)
       /\ verificados[c] >= 1
       /\ Exitosa(d)

(***************************************************************************)
(* C2. A call that commits persists exactly one new Order row with status  *)
(* 'pendiente', exactly one detail row per line item, lowers each          *)
(* product's stock by the quantity requested for it and returns 'success'  *)
(* with total = sum of price x quantity; and a call running alone whose    *)
(* products all exist with enough initial stock never fails validation     *)
(* (stock 5, price 10, quantity 3 gives total 30 and leaves stock 2).      *)
(***************************************************************************)
C2_CommitEffect(c) ==
    (pc[c] = "commit" /\ pc'[c] = "done") =>
       /\ result'[c].kind = "return"
       /\ result'[c].status = "success"
       /\ result'[c].total = TotalDe(items[c])
       /\ pedidos' \ pedidos =
             {[id |-> result'[c].pedido_id, usuario_id |-> c,
               total |-> TotalDe(items[c]), estado |-> "pendiente"]}
       /\ pedidos \subseteq pedidos'
       /\ \A o \in pedidos : o.id # result'[c].pedido_id
       /\ detalles \subseteq detalles'
       /\ Cardinality(detalles' \ detalles) = Len(items[c])
       /\ \A k \in 1..Len(items[c]) :
             \E d \in detalles' \ detalles :
                /\ d.pedido_id = result'[c].pedido_id
                /\ d.linea = k
                /\ d.producto_id = items[c][k].producto_id
                /\ d.cantidad = items[c][k].cantidad
                /\ d.subtotal = Precio[d.producto_id] * d.cantidad
       /\ \A p \in Products : stock'[p] = stock[p] - CantidadPedida(items[c], p)

C2_SufficientNeverRefused(c) ==
    ( /\ Sola(c)
      /\ pc[c] = "done"
      /\ Len(items[c]) > 0
      /\ TodosExisten(items[c])
      /\ \A p \in Products : CantidadPedida(items[c], p) <= StockInicial[p] )
    => result[c].kind \in {"return", "DatabaseError"}

C2_Example(c) ==
    (Sola(c) /\ Exitosa(c) /\ items[c] = <<[producto_id |-> 7, cantidad |-> 3]>>)
    => (result[c].total = 30 /\ stock[7] = 2)

C2_PlaceOrder ==
    /\ [][\A c \in Calls : C2_CommitEffect(c)]_vars
    /\ [](\A c \in Calls : C2_SufficientNeverRefused(c) /\ C2_Example(c))

\* a call with two line items has committed
C2_Witness ==
    \E c \in Calls :
       /\ Exitosa(c)
       /\ Len(items[c]) = 2
       /\ Cardinality({d \in detalles : d.pedido_id = result[c].pedido_id}) = 2

(***************************************************************************)
(* C3. An item whose quantity exceeds the stock seen when it is checked    *)
(* never passes the check: the call fails with a ValidationError (400)     *)
(* whose message carries the available and the requested amount, no step   *)
(* of the call before its commit changes committed rows, and a call that   *)
(* ran alone and failed leaves no Order row, no detail row and the stock   *)
(* of every product as it was.                                             *)
(***************************************************************************)
C3_Check(c) ==
    \A p \in Products :
       LeeProducto(c, p) =>
          LET q == items[c][idx[c]].cantidad
              d == StockVisible(c, p)
          IN IF d < q
               THEN /\ pc'[c] = "except"
                    /\ exc'[c] = ValidationError(MsgStockInsuficiente(p, d, q))
               ELSE pc'[c] = "update"

C3_NothingBeforeCommit(c) ==
    (pc'[c] # pc[c] /\ pc[c] # "commit") => UNCHANGED <<stock, pedidos, detalles>>

C3_Raised(c) ==
    (Fallida(c) /\ result[c].kind = "ValidationError"
                /\ result[c].message.texto = "Stock insuficiente") =>
       /\ HttpPedido(result[c]) = 400
       /\ result[c].message.disponible < result[c].message.solicitado
       /\ txLog[c] = <<>> /\ txPedidos[c] = {} /\ txDetalles[c] = {}
       /\ Sola(c) => (stock = StockInicial /\ pedidos = {} /\ detalles = {})

C3_InsufficientStock ==
    /\ [][\A c \in Calls : C3_Check(c) /\ C3_NothingBeforeCommit(c)]_vars
    /\ [](\A c \in Calls : C3_Raised(c))

\* product 7 with stock 5: 3 taken by the first item, the second item asks for 3
\* of the remaining 2; the call failed and the committed stock is still 5
C3_Witness ==
    \E c \in Calls :
       /\ Fallida(c)
       /\ verificados[c] = 1
       /\ result[c] = ValidationError(MsgStockInsuficiente(7, 2, 3))
       /\ stock[7] = 5

(***************************************************************************)
(* C4. Calls for the same product whose combined quantity exceeds the      *)
(* stock never all commit: a call reads a product's stock only while no    *)
(* other transaction holds an uncommitted decrement of it, and the         *)
(* quantities of the committed calls never exceed the initial stock.       *)
(***************************************************************************)
C4_ReadsAfterDecrement(c) ==
    \A p \in Products :
       LeeProducto(c, p) =>
          \A d \in Calls \ {c} : Decrementado(txLog[d], p) = 0

C4_NoOversell ==
    /\ [][\A c \in Calls : C4_ReadsAfterDecrement(c)]_vars
    /\ [](\A p \in Products :
             PedidaPor({c \in Calls : Exitosa(c)}, p) <= StockInicial[p])

\* one call holds the lock of product 7 with its decrement uncommitted while
\* another waits to check the same product, and together they ask for too much
C4_Witness ==
    \E c, d \in Calls :
       /\ c # d
       /\ lockOwner[7] = c
       /\ Decrementado(txLog[c], 7) > 0
       /\ pc[d] = "select"
       /\ items[d][idx[d]].producto_id = 7
       /\ Decrementado(txLog[c], 7) + items[d][idx[d]].cantidad > stock[7]

(***************************************************************************)
(* C5. crear_pedido with an empty item list fails with a ValidationError   *)
(* before a connection or transaction is opened and changes no Product,    *)
(* Order or detail row.                                                    *)
(***************************************************************************)
C5_Step(c) ==
    (pc[c] = "idle" /\ pc'[c] # "idle" /\ Len(items'[c]) = 0) =>
       /\ pc'[c] = "done"
       /\ result'[c] = ValidationError(MsgSinItems)
       /\ conn'[c] = "none"
       /\ UNCHANGED <<stock, pedidos, detalles, seqPedido, lockOwner>>

C5_EmptyOrder ==
    /\ [][\A c \in Calls : C5_Step(c)]_vars
    /\ [](\A c \in Calls :
             (pc[c] # "idle" /\ Len(items[c]) = 0) =>
                /\ pc[c] = "done"
                /\ result[c] = ValidationError(MsgSinItems)
                /\ conn[c] = "none"
                /\ verificados[c] = 0)

\* a call with an empty list has ended
C5_Witness ==
    \E c \in Calls : pc[c] = "done" /\ Len(items[c]) = 0 /\ result[c].kind # "none"

(***************************************************************************)
(* C6. A failure inside the transaction reaches the caller only after the  *)
(* transaction was rolled back (no pending write, no lock, transaction     *)
(* ended); a ValidationError reaches the caller unchanged and any other    *)
(* failure as a generic DatabaseError carrying the original message.       *)
(***************************************************************************)
C6_RolledBack(c) ==
    /\ txLog[c] = <<>>
    /\ txPedidos[c] = {}
    /\ txDetalles[c] = {}
    /\ \A p \in Products : lockOwner[p] # c
    /\ conn[c] # "in_tx"

C6_Raise(c) ==
    (pc[c] # "done" /\ pc'[c] = "done" /\ result'[c].kind # "return"
                    /\ conn[c] # "none") =>
       /\ pc[c] = "raise"
       /\ C6_RolledBack(c)
       /\ exc[c].kind # "none"
       /\ IF exc[c].kind = "ValidationError"
            THEN result'[c] = exc[c]
            ELSE /\ result'[c].kind = "DatabaseError"
                 /\ result'[c].code = 500
                 /\ result'[c].message.causa = exc[c].message

Directives == message.tool_calls.calls
ToolBranch == statuses # <<>> /\ statuses[1] = 200 /\ message.tool_calls.shape = "list"
Returned == chatPc = "done" /\ chatResult.kind = "return"

\* entry e answers directive tc with a result or with an error message
Answers(e, tc) ==
    /\ e.tool_call_id = tc.id
    /\ DOMAIN e \in {{"tool_call_id", "result"}, {"tool_call_id", "error"}}

\* the directive names one of the four actions with its required arguments
Supported(tc) ==
    /\ tc.arguments.parses
    /\ "action" \in DOMAIN tc.arguments.value
    /\ LET a == tc.arguments.value
       IN \/ a["action"] = "list_tables"
          \/ a["action"] \in {"describe_table", "get_table_content"}
               /\ "table_name" \in DOMAIN a
          \/ a["action"] = "execute_query" /\ "query" \in DOMAIN a

(***************************************************************************)
(* C8. With n >= 1 directives the loop handles them in order: while it     *)
(* runs, results holds one entry per directive handled so far, entry i     *)
(* carrying directive i's id and a result or an error; handling a          *)
(* directive never ends or fails the call; and once the loop is over the   *)
(* list has exactly n entries, which a returned response carries as        *)
(* tool_results. A failed chat with directives failed at the second        *)
(* submission, not at a directive.                                         *)
(***************************************************************************)
C8_Entries ==
    (ToolBranch /\ Len(Directives) >= 1) =>
       /\ chatPc = "tools" => Len(results) = tcIdx - 1
       /\ chatPc \in {"second", "done"} => Len(results) = Len(Directives)
       /\ \A i \in 1..Len(results) : Answers(results[i], Directives[i])
       /\ Returned => chatResult.value.tool_results = [set |-> TRUE, entries |-> results]
       /\ (chatPc = "done" /\ ~Returned) =>
             (Len(statuses) = 2 /\ statuses[2] # 200 /\ chatResult.message.texto = "Error en la API")

C8_Step ==
    chatPc = "tools" =>
       /\ chatPc' \in {"tools", "second"}
       /\ chatResult' = chatResult
       /\ Len(results') = Len(results) + 1
       /\ \A i \in 1..Len(results) : results'[i] = results[i]

C8_ToolCallIsolation == [][C8_Step]_vars /\ []C8_Entries

\* two directives with different ids, the first with arguments that are no
\* JSON: both have their entry in the returned tool_results
C8_Witness ==
    /\ Returned
    /\ ToolBranch
    /\ Len(Directives) = 2
    /\ ~Directives[1].arguments.parses
    /\ Directives[1].id # Directives[2].id
    /\ Len(chatResult.value.tool_results.entries) = 2
    /\ chatResult.value.tool_results.entries[2].tool_call_id = Directives[2].id

(***************************************************************************)
(* C9. For every directive that names a supported action with its required *)
(* arguments, the tool_results entry of the returned response holds the    *)
(* directive's id and a 'result', not an error (the database being         *)
(* reachable throughout).                                                  *)
(***************************************************************************)
C9_SupportedYieldsResult ==
    (Returned /\ ToolBranch) =>
       \A i \in 1..Len(Directives) :
          Supported(Directives[i]) =>
             /\ chatResult.value.tool_results.set
             /\ Len(chatResult.value.tool_results.entries) = Len(Directives)
             /\ chatResult.value.tool_results.entries[i].tool_call_id = Directives[i].id
             /\ "result" \in DOMAIN chatResult.value.tool_results.entries[i]

(***************************************************************************)
(* C10. If the first response (status 200) carries zero tool-call          *)
(* directives, process_chat handles no directive, makes no second          *)
(* submission and returns what _process_openrouter_response extracts from  *)
(* that response, with tool_results absent.                                *)
(***************************************************************************)
C10_NoDirectivesReturnsFirst ==
    ( /\ chatPc \in {"second", "done"}
      /\ statuses # <<>>
      /\ statuses[1] = 200
      /\ Len(Directives) = 0 )
    => /\ chatPc = "done"
       /\ Len(submissions) = 1
       /\ results = <<>>
       /\ chatResult = [kind |-> "return", value |-> ProcessOpenrouterResponse(data)]
       /\ chatResult.value.tool_results = NoToolResults


(***************************************************************************)
(* C7. Every database operation releases the connection it used on every   *)
(* exit path: whenever no operation is running, no connection opened by a  *)
(* completed operation is still open.                                      *)
(***************************************************************************)
C7_ConnectionsReleased ==
    dbPc = "idle" => \A i \in 1..Len(dbConns) : dbConns[i].state = "closed"


(***************************************************************************)
(* C11. With n >= 1 directives no second submission is made while a        *)
(* directive is still to be handled, and the second submission carries     *)
(* exactly: the system message, the caller's messages in their order, one  *)
(* assistant message with the n directives, then n tool messages, the i-th *)
(* tagged with the id of directive i and carrying entry i of results. The  *)
(* first submission is the system message followed by the caller's         *)
(* messages.                                                               *)
(***************************************************************************)
C11_SecondSubmission ==
    (ToolBranch /\ Len(Directives) >= 1) =>
       /\ Len(submissions) <= 2
       /\ submissions[1].messages[1] = SystemMessage
       /\ Len(submissions[1].messages) = 1 + Len(chatMessages)
       /\ chatPc = "tools" => Len(submissions) = 1
       /\ Len(submissions) = 2 =>
            LET sent == submissions[2].messages
                m == Len(chatMessages)
                n == Len(Directives)
            IN /\ Len(results) = n
               /\ Len(sent) = 1 + m + 1 + n
               /\ sent[1] = SystemMessage
               /\ \A k \in 1..m : sent[1 + k] = chatMessages[k]
               /\ sent[m + 2].role = "assistant"
               /\ sent[m + 2].tool_calls = Directives
               /\ \A i \in 1..n :
                     /\ sent[m + 2 + i].role = "tool"
                     /\ sent[m + 2 + i].tool_call_id = Directives[i].id
                     /\ sent[m + 2 + i].content = JsonDumps(results[i])

\* a conversation of three messages and two directives with different ids:
\* the second submission has 1 + 3 + 1 + 2 messages
C11_Witness ==
    /\ ToolBranch
    /\ Len(submissions) = 2
    /\ Len(chatMessages) = 3
    /\ Len(Directives) = 2
    /\ Directives[1].id # Directives[2].id
    /\ Len(submissions[2].messages) = 7
    /\ submissions[2].messages[7].tool_call_id = Directives[2].id

(***************************************************************************)
(* C12. A response outside 200..299 at the first or the second submission  *)
(* ends process_chat with the error "Error en la API" carrying the body of *)
(* that response, no further submission being made and nothing returned;   *)
(* a response inside 200..299 never ends it with that error.               *)
(***************************************************************************)
ApiFailure == chatPc = "done" /\ chatResult.kind = "Exception"
                 /\ chatResult.message.texto = "Error en la API"

C12_Non2xxFails ==
    \A k \in 1..Len(statuses) :
       /\ statuses[k] \notin 200..299 =>
            /\ ApiFailure
            /\ Len(statuses) = k
            /\ Len(submissions) = k
            /\ chatResult.message.body \in {r.text : r \in {x \in Responses : x.status = statuses[k]}}
       /\ (statuses[k] \in 200..299 /\ k = Len(statuses)) => ~ApiFailure

(***************************************************************************)
(* C13. The usage block of a returned response has the three token counts  *)
(* and the two detail blocks: a count is the upstream value, 0 when the    *)
(* upstream usage lacks it; a detail block the upstream sends non-empty    *)
(* comes back with its three fields, each the upstream value or 0, and a   *)
(* detail block absent or empty upstream is None. With no usage object     *)
(* upstream every count is 0, both detail blocks are None, and the         *)
(* response as _process_openrouter_response built it (returned as it is    *)
(* after the first submission) has no tool_results.                        *)
(***************************************************************************)
TokenCounts == {"prompt_tokens", "completion_tokens", "total_tokens"}
DetailBlocks == {"prompt_tokens_details", "completion_tokens_details"}
DetailCounts == {"cached_tokens", "reasoning_tokens", "total_tokens"}
None == [none |-> TRUE]

DbRaised == dbPc = "idle" /\ dbResult.kind \notin {"none", "return"}
\* the connections the operation called last opened
OwnConns == {i \in 1..Len(dbConns) : dbConns[i].op = dbOps}
\* a step that calls execute_query
CallsExecuteQuery == dbOps' = dbOps + 1 /\ dbOp'.name = "execute_query"

(***************************************************************************)
(* C14. The step that calls execute_query with a statement holding one of  *)
(* the ten phrases, its words in any letter case, ends the call raising,   *)
(* with no connection opened; with a statement holding none of them the    *)
(* call goes on to execute it.                                             *)
(***************************************************************************)
DeniedPhrases ==
    { <<"drop", "database">>, <<"drop", "schema">>, <<"alter", "database">>,
      <<"alter", "schema">>, <<"create", "database">>, <<"create", "schema">>,
      <<"drop", "role">>, <<"create", "role">>, <<"grant", "all">>,
      <<"revoke", "all">> }

\* statement q holds the phrase, whatever the case of its words
Holds(q, phrase) ==
    \E i \in 1..Len(q) :
       /\ i + 1 <= Len(q)
       /\ q[i].w = phrase[1]
       /\ q[i + 1].w = phrase[2]

C14_Step ==
    CallsExecuteQuery =>
       IF \E phrase \in DeniedPhrases : Holds(dbOp'.query, phrase)
         THEN /\ dbPc' = "idle"
              /\ dbResult'.kind \notin {"none", "return"}
              /\ dbConns' = dbConns
         ELSE /\ dbPc' \in {"connect", "before_connect"}
              /\ dbResult' = NoResult

C14_DenyList == [][C14_Step]_vars

\* "DROP database tienda" was refused: the call raised, no connection opened
C14_Witness ==
    /\ dbOps = 1
    /\ dbOp = [name |-> "execute_query",
               query |-> <<Word("drop", TRUE), Word("database", FALSE), Word("tienda", FALSE)>>]
    /\ DbRaised
    /\ dbConns = <<>>

(***************************************************************************)
(* C15. Whenever execute_query ends raising, what it raises is a           *)
(* QueryError (400 at POST /api/db/query) wrapping the text of the         *)
(* underlying error, and the transaction of the connection the statement   *)
(* ran on is not committed.                                                *)
(***************************************************************************)
C15_QueryFailureRolledBack ==
    (DbRaised /\ dbOp.name = "execute_query") =>
       /\ dbResult.kind = "QueryError"
       /\ HttpDb(dbResult) = 400
       /\ dbResult.message.texto = "Error al ejecutar la consulta"
       /\ "error" \in DOMAIN dbResult.message
       /\ \A i \in OwnConns : dbConns[i].by = "connect" => dbConns[i].tx # "committed"

(***************************************************************************)
(* C16. get_table_content on a table that is not in the catalog: the       *)
(* service call raises TableNotFoundError naming the table with only the   *)
(* existence check run, the route answers 404, and a directive             *)
(* get_table_content for such a table is answered with the text of that    *)
(* TableNotFoundError.                                                     *)
(***************************************************************************)
\* str(TableNotFoundError(t))
TableNotFoundText(t) ==
    IF t = "nonexistent_table" THEN "La tabla 'nonexistent_table' no existe"
    ELSE "La tabla no existe"

C16_ServiceAndRoute ==
    (dbOp.name = "get_table_content" /\ dbOp.table \notin Tables) =>
       /\ \A i \in OwnConns : dbConns[i].by = "exists_connect"
       /\ dbPc \in {"idle", "exists_connect", "exists_query"}
       /\ (DbRaised /\ dbResult.kind # "DatabaseError") =>
             /\ dbResult.kind = "TableNotFoundError"
             /\ dbResult.message.table_name = dbOp.table
             /\ HttpDb(dbResult) = 404

C16_Dispatcher ==
    ToolBranch =>
       \A i \in 1..Len(results) :
          LET a == Directives[i].arguments
          IN ( /\ a.parses
               /\ DOMAIN a.value = {"action", "table_name"}
               /\ a.value["action"] = "get_table_content"
               /\ a.value["table_name"] \notin Tables )
             => /\ DOMAIN results[i] = {"tool_call_id", "error"}
                /\ results[i].error = TableNotFoundText(a.value["table_name"])

C16_TableNotFound == C16_ServiceAndRoute /\ C16_Dispatcher

(***************************************************************************)
(* C17. When list_tables ends raising because no connection could be       *)
(* opened, what it raises is a ConnectionError with code 503, and          *)
(* GET /api/db/tables answers 503.                                         *)
(***************************************************************************)
C17_ListTablesUnreachable ==
    (DbRaised /\ dbOp.name = "list_tables" /\ OwnConns = {}) =>
       /\ dbResult.kind = "ConnectionError"
       /\ dbResult.code = 503
       /\ HttpDb(dbResult) = 503

(***************************************************************************)
(* C18. Whenever get_table_structure ends raising, it raises               *)
(* TableNotFoundError if the existence check ran and the table is not in   *)
(* the catalog, and QueryError in every other case.                        *)
(***************************************************************************)
\* the existence check of the operation called last ran to its end
ExistenceChecked ==
    \E i \in OwnConns : dbConns[i].by = "exists_connect" /\ dbConns[i].tx = "committed"

C18_StructureErrors ==
    (DbRaised /\ dbOp.name = "get_table_structure") =>
       IF ExistenceChecked /\ dbOp.table \notin Tables
         THEN dbResult.kind = "TableNotFoundError" /\ dbResult.message.table_name = dbOp.table
         ELSE dbResult.kind = "QueryError"

(***************************************************************************)
(* Helpers of the dispatcher properties: how the failure of a directive    *)
(* shows in its results entry.  Line 184 stores str(e) of a                *)
(* ValidationError as it is; line 189 stores any other exception behind    *)
(* the prefix "Error inesperado: ".                                        *)
(***************************************************************************)
ActionNames == {"list_tables", "describe_table", "execute_query", "get_table_content"}
\* the text is one line 189 wrote
Unexpected(text) == text \in {ErrJson, ErrAttribute}
\* the names a text mentions
Mentions(text) ==
    IF text = ErrAttribute THEN {"MCPService", "execute_mcp_command"}
    ELSE IF text = ErrJson THEN {"JSONDecodeError"}
    ELSE {}
\* the entry is the one a ValidationError naming `name` leaves
ValidationFailureNaming(entry, name) ==
    /\ DOMAIN entry = {"tool_call_id", "error"}
    /\ ~Unexpected(entry.error)
    /\ name \in Mentions(entry.error)

(***************************************************************************)
(* C19. A directive whose action is none of list_tables, describe_table,   *)
(* execute_query, get_table_content is answered with a ValidationError     *)
(* naming that action, and no database operation is called.                *)
(***************************************************************************)
C19_UnknownAction ==
    ToolBranch =>
       \A i \in 1..Len(results) :
          LET a == Directives[i].arguments
          IN (a.parses /\ "action" \in DOMAIN a.value /\ a.value["action"] \notin ActionNames)
             => /\ ValidationFailureNaming(results[i], a.value["action"])
                /\ dbOps = 0

(***************************************************************************)
(* C20. A directive describe_table or get_table_content without            *)
(* table_name, or execute_query without query, is answered with a          *)
(* ValidationError naming the missing field, and no database operation is  *)
(* called.                                                                 *)
(***************************************************************************)
RequiredField(action) ==
    IF action = "execute_query" THEN "query" ELSE "table_name"

C20_MissingParameter ==
    ToolBranch =>
       \A i \in 1..Len(results) :
          LET a == Directives[i].arguments
          IN ( /\ a.parses
               /\ "action" \in DOMAIN a.value
               /\ a.value["action"] \in ActionNames \ {"list_tables"}
               /\ RequiredField(a.value["action"]) \notin DOMAIN a.value )
             => /\ ValidationFailureNaming(results[i], RequiredField(a.value["action"]))
                /\ dbOps = 0

(***************************************************************************)
(* C26. No step of a crear_pedido call, committing or failing, removes or  *)
(* changes an Order row or a detail row persisted before it: the rows      *)
(* persisted stay, no second row appears under the id of a persisted       *)
(* Order, and every Order row has the status 'pendiente'.                  *)
(***************************************************************************)
C26_Step ==
    /\ pedidos \subseteq pedidos'
    /\ detalles \subseteq detalles'
    /\ \A o \in pedidos : \A n \in pedidos' : n.id = o.id => n = o

C26_Pendiente == \A o \in pedidos : o.estado = "pendiente"

C26_OrdersImmutable == [][C26_Step]_vars /\ []C26_Pendiente

\* both calls committed: the Order of the first is still there, unchanged,
\* next to the Order of the second
C26_Witness ==
    /\ Cardinality(pedidos) = 2
    /\ \A c \in Calls : Exitosa(c)
    /\ Cardinality(detalles) >= 3

(***************************************************************************)
(* C28. With initial stock >= 0 and every quantity > 0, the committed      *)
(* stock of every product, and the stock every transaction sees, is >= 0   *)
(* in every state, whatever the interleaving of the calls and whether they *)
(* commit or roll back, also when an order lists a product twice.          *)
(***************************************************************************)
C28_StockNonNegative ==
    /\ \A p \in Products : StockInicial[p] >= 0
    /\ \A its \in ItemLists : \A k \in 1..Len(its) : its[k].cantidad > 0
    /\ \A p \in Products :
          /\ stock[p] >= 0
          /\ \A c \in Calls : StockVisible(c, p) >= 0

\* an order listing product 7 twice (3 + 2) committed and left its stock at 0,
\* and the other call failed
C28_Witness ==
    \E c \in Calls :
       /\ Exitosa(c)
       /\ Len(items[c]) = 2
       /\ items[c][1].producto_id = 7 /\ items[c][2].producto_id = 7
       /\ stock[7] = 0
       /\ \E d \in Calls \ {c} : Fallida(d) /\ Len(items[d]) >= 1

(***************************************************************************)
(* C29. In every state, for each product, initial stock minus committed    *)
(* stock equals the sum of the quantities of the persisted detail rows of  *)
(* that product, and the total of each persisted Order equals the sum of   *)
(* the subtotals of its own detail rows.                                   *)
(***************************************************************************)
RECURSIVE SumRows(_, _)
\* sum of field f over the rows of the set
SumRows(rows, f) ==
    IF rows = {} THEN 0
    ELSE LET r == CHOOSE x \in rows : TRUE
         IN r[f] + SumRows(rows \ {r}, f)

C29_Conservation ==
    /\ \A p \in Products :
          StockInicial[p] - stock[p] =
             SumRows({d \in detalles : d.producto_id = p}, "cantidad")
    /\ \A o \in pedidos :
          o.total = SumRows({d \in detalles : d.pedido_id = o.id}, "subtotal")

\* two Orders persisted, one of them with two detail rows of the same product
C29_Witness ==
    /\ Cardinality(pedidos) = 2
    /\ \E o \in pedidos :
          LET own == {d \in detalles : d.pedido_id = o.id}
          IN /\ Cardinality(own) = 2
             /\ \A d \in own : d.producto_id = 7
             /\ o.total = 30

(***************************************************************************)
(* C21. A directive that names a supported action with its required        *)
(* arguments can fail only through the database operation it maps to, and  *)
(* that failure reaches process_chat unchanged: whenever such a directive  *)
(* is answered with an error, the error is the text of the failure itself  *)
(* (stored by line 184), never that of another exception (stored by line   *)
(* 189 behind "Error inesperado: ").                                       *)
(***************************************************************************)
C21_FailuresUnchanged ==
    ToolBranch =>
       \A i \in 1..Len(results) :
          (Supported(Directives[i]) /\ "error" \in DOMAIN results[i])
             => ~Unexpected(results[i].error)

(***************************************************************************)
(* C30. One process_chat call makes at most two submissions: one when the  *)
(* first response carries no directive, two once the directives of a first *)
(* response that carries some are handled; and when the call has ended     *)
(* after the second response, the entries of results answer the directives *)
(* of the first response only and no third submission exists.              *)
(***************************************************************************)
C30_AtMostTwoSubmissions ==
    /\ Len(submissions) <= 2
    /\ Len(results) <= Len(Directives)
    /\ (statuses # <<>> /\ statuses[1] = 200) =>
          IF Len(Directives) = 0
            THEN Len(submissions) = 1
            ELSE /\ chatPc = "tools" => Len(submissions) = 1
                 /\ chatPc \in {"second", "done"} => Len(submissions) = 2
    /\ (chatPc = "done" /\ Len(statuses) = 2) =>
          /\ Len(submissions) = 2
          /\ Len(results) = Len(Directives)
          /\ \A i \in 1..Len(results) : Answers(results[i], Directives[i])

(***************************************************************************)
(* C24. Every caller-supplied identifier in the SQL text a connection of   *)
(* get_table_content executes was validated against the catalog: a table   *)
(* name is a table of the public schema, an order_by column is a column of *)
(* that table.                                                             *)
(***************************************************************************)
C24_IdentifiersValidated ==
    \A i \in 1..Len(dbConns) :
       \A x \in dbConns[i].interpolated :
          /\ x.table \in Tables
          /\ x.kind = "table" => x.name \in Tables
          /\ x.kind = "column" => x.name \in Columns[x.table]

(***************************************************************************)
(* Helpers of the /mcp properties.                                         *)
(***************************************************************************)
McpAnswered == mcpCalls > 0
McpAction == Get(mcpRequest, "action", "")
McpParameters == Get(mcpRequest, "params", EmptyDict)
\* the request names a supported action with the parameters it requires
McpSupported ==
    \/ McpAction = "list_tables"
    \/ McpAction \in {"describe_table", "get_table_content"}
         /\ "table_name" \in DOMAIN McpParameters
    \/ McpAction = "execute_query" /\ "query" \in DOMAIN McpParameters

(***************************************************************************)
(* C22. POST /mcp answers a supported action with valid parameters with    *)
(* the result of the database operation (status 200), and any other        *)
(* request with the dispatcher's validation error (status 400).            *)
(***************************************************************************)
C22_McpAsDispatcher ==
    McpAnswered =>
       IF McpSupported
         THEN mcpResponse.kind = "return" /\ mcpResponse.status_code = 200
         ELSE mcpResponse.kind = "HTTPException" /\ mcpResponse.status_code = 400

(***************************************************************************)
(* C27. POST /mcp with a body whose action is missing or empty is answered *)
(* with status 400 and the detail "Se requiere el parametro 'action'", and *)
(* no database operation is called.                                        *)
(***************************************************************************)
C27_MissingAction ==
    (McpAnswered /\ McpAction = "") =>
       /\ mcpResponse.kind = "HTTPException"
       /\ mcpResponse.status_code = 400
       /\ mcpResponse.detail = MsgRequiereAction
       /\ dbOps = 0

TimedOut(c) == exc[c].kind = "Exception" /\ exc[c] = OtherError(MsgStatementTimeout)
TimeoutFailure == DatabaseError(MsgErrorCrear(OtherError(MsgStatementTimeout)))
HoldsNoLock(c) == \A p \in Products : lockOwner[p] # c

====
